---- MODULE Spec2Model ----
(***************************************************************************)
(* Model of remote_app/ocr_service/mineru_processor.py: the MinerU client  *)
(* workflow  upload -> create task -> poll -> download  of process_pdf.    *)
(*                                                                         *)
(* Time is an integer clock `now`, read only by _poll_task.  It advances    *)
(* while _poll_task is blocked: in a status request (0..MaxReqTime ticks)  *)
(* and in time.sleep (poll_interval ticks); the statements between two     *)
(* blocking calls take no time.  The provider is the environment: every    *)
(* response is drawn from the responses the endpoint can produce.          *)
(***************************************************************************)
EXTENDS Integers, Sequences, FiniteSets, TLC

VARIABLES
  api_key,        \* self.api_key
  timeout,        \* self.timeout
  poll_interval,  \* self.poll_interval
  pc,             \* position of the call inside process_pdf and its helpers
  args,           \* arguments of the running process_pdf call
  total_pages,    \* local of process_pdf
  is_oversized,   \* local of process_pdf
  output_dir,     \* local of process_pdf
  presigned_url,  \* local of _upload_file
  file_url,       \* value returned by _upload_file
  task_id,        \* value returned by _create_task
  task_data,      \* value returned by _poll_task
  raised,         \* exception propagating out of a helper, or out of process_pdf
  now,            \* time.time()
  start_time,     \* local of _poll_task
  resp,           \* the response received by the step just taken
  nreq,           \* requests issued so far, per kind
  sleeps,         \* time.sleep calls made so far by _poll_task
  observed,       \* what each status request of the call met, in order
  markdown_text,  \* local of _download_result
  saved_files,    \* local of _download_result
  files,          \* the file system under the output directories: path -> content
  ntemp,          \* tempfile.mkdtemp calls so far
  archive,        \* the zip the provider serves at full_zip_url: its namelist
  dl_failed,      \* the except branch of _download_result ran
  result,         \* the value process_pdf returned
  mineru_processor, \* the module global _mineru_processor
  built,          \* MinerUProcessor() constructions so far
  caller,         \* the threads inside get_mineru_processor
  stub,           \* the provider and the disk as a test double scripts them
  first           \* what the first of two successive calls returned

vars == <<api_key, timeout, poll_interval, pc, args, total_pages, is_oversized,
          output_dir, presigned_url, file_url, task_id, task_data, raised, now,
          start_time, resp, nreq, sleeps, observed, markdown_text, saved_files, files,
          ntemp, archive, dl_failed, result, mineru_processor, built, caller,
          stub, first>>

----------------------------------------------------------------------------
(* Bounds of the model *)

MaxTimeout == 3      \* self.timeout ranges over 0..MaxTimeout
MaxInterval == 2     \* self.poll_interval ranges over 0..MaxInterval
MaxReqTime == 2      \* a request blocks for 0..MaxReqTime ticks
MaxPolls == 4        \* status requests explored per call
MaxPages == 2        \* page counts 0..MaxPages
MaxEntries == 2      \* entries of an archive
MaxCallers == 3      \* threads calling get_mineru_processor

----------------------------------------------------------------------------
(* Python values *)

None == [some |-> FALSE]
Some(v) == [some |-> TRUE, val |-> v]

\* a test for None alone
IsNone(x) == x = None

\* `not x` for a value that is None or a string
Falsy(x) == x = None \/ x = Some("")

NoResp == [kind |-> "none"]

RequestKinds == {"slot", "put", "task", "poll", "md", "zip"}

Issue(k) == [nreq EXCEPT ![k] = @ + 1]

----------------------------------------------------------------------------
(* HTTP responses.  A request either fails in transport (ConnectionError,  *)
(* Timeout: a requests.RequestException) or yields an HTTP response with a *)
(* status (ok = 2xx) and a body.  A JSON body is the provider's envelope   *)
(* {code, msg, data} or JSON of another shape, on which the code's .get    *)
(* chain raises AttributeError.                                            *)

NetErr == [kind |-> "neterr"]
Http(ok, body) == [kind |-> "http", ok |-> ok, body |-> body]
BadShape == [shape |-> "bad"]
Env(code, data) == [shape |-> "env", code |-> code, data |-> data]

OptStr(u) == {None, Some(""), Some(u)}

\* bodies of an upload-slot response: data.files[0] = {presigned_url, url}
SlotData == [presigned_url : OptStr("https://oss/put"),
             url : OptStr("https://oss/file.pdf")]
SlotGood == Env(0, [presigned_url |-> Some("https://oss/put"),
                    url |-> Some("https://oss/file.pdf")])
SlotRefused == Env(1, [presigned_url |-> None, url |-> None])
SlotBodies == {BadShape, SlotRefused} \cup {Env(0, d) : d \in SlotData}

\* bodies of a task-creation response: data = {task_id}
TaskGood == Env(0, [task_id |-> Some("task-1")])
TaskRefused == Env(1, [task_id |-> None])
TaskBodies == {BadShape, TaskRefused} \cup
              {Env(0, [task_id |-> t]) : t \in OptStr("task-1")}

\* bodies of a status response: data = {state, err_msg, md_url, full_zip_url}
PollData(state, md, zip) ==
  [state |-> state, err_msg |-> "provider error", md_url |-> md,
   full_zip_url |-> zip]
InProgress == {Some("pending"), Some("running"), None}
DoneData ==
  {PollData(Some("done"), m, z) : m \in {None, Some("https://cdn/full.md")},
                                  z \in {None, Some("https://cdn/full.zip")}}
PollGood == Env(0, PollData(Some("done"), Some("https://cdn/full.md"),
                            Some("https://cdn/full.zip")))
PollRefused == Env(1, PollData(None, None, None))
PollBodies ==
  {BadShape, PollRefused, Env(1, PollData(Some("running"), None, None))}
  \cup {Env(0, PollData(s, None, None)) : s \in InProgress \cup {Some("failed")}}
  \cup {Env(0, d) : d \in DoneData}

\* the responses of an endpoint: a transport failure, a 2xx response with any
\* body of the endpoint, an error status with a refused, a good or a bad body
Responses(bodies, good, refused) ==
  {NetErr} \cup {Http(TRUE, b) : b \in bodies}
           \cup {Http(FALSE, b) : b \in {BadShape, good, refused}}

\* An exception: its class and its message
Exc(cls, msg) == [cls |-> cls, msg |-> msg]

\* raise_for_status() and .json() of a response: the exception raised, or None
HttpFailure(r) ==
  IF r.kind = "neterr" THEN Some(Exc("RequestException", "connection error"))
  ELSE IF ~r.ok THEN Some(Exc("RequestException", "http error"))
  ELSE None

----------------------------------------------------------------------------
(* process_pdf: returns *)

\* an error status that reports the pages as processed
ErrorStatusProcessed(msg, tp, ov) ==
  [error |-> msg, total_pages |-> tp, processed_pages |-> tp,
   is_oversized |-> ov, char_count |-> 0, method |-> "mineru",
   saved_files |-> <<>>]

\* lines 287-295, 323-331, 337-345, 351-359, 390-398: the error returns
ErrorStatus(msg, tp, ov) ==
  [error |-> msg, total_pages |-> tp, processed_pages |-> 0,
   is_oversized |-> ov, char_count |-> 0, method |-> "mineru",
   saved_files |-> <<>>]

Return(text, status) ==
  /\ pc' = "returned"
  /\ result' = Some([text |-> text, status |-> status])

\* the handler of process_pdf narrowed to the network errors
ProcessCatchesRequestOnly(e) == e.cls = "RequestException"

\* line 386: except Exception as e
ProcessCatches(e) == TRUE

\* an exception e reaches the try block of process_pdf
Handle(e) ==
  IF ProcessCatches(e)
  THEN /\ Return(None, ErrorStatus("MinerU processing error: " \o e.msg, 0, FALSE))
       /\ raised' = None
  ELSE /\ pc' = "escaped"
       /\ raised' = Some(e)
       /\ result' = None

----------------------------------------------------------------------------
(* Frames *)

config == <<api_key, timeout, poll_interval>>
locals == <<total_pages, is_oversized, output_dir>>
upload == <<presigned_url, file_url>>
polling == <<start_time, sleeps, observed>>
download == <<markdown_text, saved_files, files, dl_failed>>
singleton == <<mineru_processor, built, caller>>
replay == <<stub, first>>

----------------------------------------------------------------------------
(* The environment of a call: the provider's answers and the local disk.   *)
(* Without a test double each answer is any value of its set S; a test     *)
(* double (stub) scripts the answer to every request and file operation.   *)

Offered(k, S) == IF stub.any THEN S ELSE S \cap {stub[k]}

\* the n-th status request is answered by the n-th entry of the script, the
\* requests past its end by its last entry
OfferedPoll(S) ==
  IF stub.any THEN S
  ELSE S \cap {stub.poll[IF nreq["poll"] > Len(stub.poll)
                         THEN Len(stub.poll) ELSE nreq["poll"]]}

\* how many of n image writes succeed before one fails (n: none fails)
OfferedUpTo(k, n) ==
  IF stub.any THEN 0..n ELSE {IF stub[k] > n THEN n ELSE stub[k]}

----------------------------------------------------------------------------
(* process_pdf, lines 267-321: entry, credential check, page count, dirs   *)

ArxivIds == {"unknown", "2401.00001"}
OutputPaths == {None, Some("/out")}

\* a caller invokes process_pdf(pdf_path, max_pages, output_path, arxiv_id)
Call ==
  /\ pc = "idle"
  /\ \E mp \in 1..MaxPages, op \in OutputPaths, id \in ArxivIds :
       args' = [max_pages |-> mp, output_path |-> op, arxiv_id |-> id]
  /\ pc' = "entry"
  /\ UNCHANGED <<singleton, replay, config, locals, upload, task_id, task_data, raised, now,
                 polling, resp, nreq, download, ntemp, archive, result>>

\* the credential test left out
NoCredentialNever(key) == FALSE

\* line 286: not self.api_key
NoCredential(key) == key = ""

\* if not self.api_key: return None, {...}
CheckKey ==
  /\ pc = "entry"
  /\ IF NoCredential(api_key)
     THEN Return(None, ErrorStatus("MINERU_API_KEY not configured", 0, FALSE))
     ELSE pc' = "page_count" /\ UNCHANGED result
  /\ UNCHANGED <<singleton, replay, config, args, locals, upload, task_id, task_data, raised, now,
                 polling, resp, nreq, download, ntemp, archive>>

\* a limit that a document of exactly max_pages pages already exceeds
IsOversizedInclusive(tp, mp) == tp >= mp

\* line 306: is_oversized = total_pages > max_pages
IsOversized(tp, mp) == tp > mp

\* fitz.open(pdf_path); total_pages = len(pdf_document): the file is unreadable
\* (the exception reaches the handler of process_pdf) or has n pages
PageCount ==
  /\ pc = "page_count"
  /\ \E n \in Offered("pages", -1..MaxPages) :
       IF n = -1
       THEN /\ Handle(Exc("RuntimeError", "cannot open document"))
            /\ UNCHANGED locals
       ELSE /\ total_pages' = n
            /\ is_oversized' = IsOversized(n, args.max_pages)
            /\ pc' = "mkdir"
            /\ UNCHANGED <<output_dir, raised, result>>
  /\ UNCHANGED <<singleton, replay, config, args, upload, task_id, task_data, now, polling, resp,
                 nreq, download, ntemp, archive>>

\* Path(tempfile.mkdtemp()): a directory no earlier call was given
TempDir(n) == "/tmp/tmp" \o ToString(n)

\* output_dir.mkdir(parents=True, exist_ok=True) or tempfile.mkdtemp(); either
\* may raise OSError
MakeOutputDir ==
  /\ pc = "mkdir"
  /\ \E made \in Offered("mkdir", BOOLEAN) :
       IF ~made
       THEN /\ Handle(Exc("OSError", "permission denied"))
            /\ UNCHANGED <<output_dir, ntemp>>
       ELSE /\ IF ~Falsy(args.output_path)
               THEN output_dir' = args.output_path.val /\ UNCHANGED ntemp
               ELSE output_dir' = TempDir(ntemp) /\ ntemp' = ntemp + 1
            /\ pc' = "upload"
            /\ UNCHANGED <<raised, result>>
  /\ UNCHANGED <<singleton, replay, config, args, total_pages, is_oversized, upload, task_id,
                 task_data, now, polling, resp, nreq, download, archive>>

----------------------------------------------------------------------------
(* _upload_file, lines 48-108 *)

\* a slot accepted as soon as it names the URL to write to
SlotAcceptedWriteUrlOnly(r) ==
  /\ HttpFailure(r) = None
  /\ r.body.shape = "env"
  /\ r.body.code = 0
  /\ ~Falsy(r.body.data.presigned_url)

\* lines 75-88: what the upload-slot response leads to: the PUT, or None
SlotAccepted(r) ==
  /\ HttpFailure(r) = None
  /\ r.body.shape = "env"
  /\ r.body.code = 0
  /\ ~Falsy(r.body.data.presigned_url)
  /\ ~Falsy(r.body.data.url)

\* os.path.getsize(pdf_path), then requests.post(UPLOAD_ENDPOINT): every
\* failure is caught inside _upload_file and makes it return None
UploadSlot ==
  /\ pc = "upload"
  /\ \E sized \in Offered("getsize", BOOLEAN) :
       IF ~sized
       THEN /\ resp' = NoResp
            /\ presigned_url' = None
            /\ file_url' = None
            /\ pc' = "upload_done"
            /\ UNCHANGED nreq
       ELSE /\ \E r \in Offered("slot",
                                Responses(SlotBodies, SlotGood, SlotRefused)) :
                 /\ resp' = r
                 /\ IF SlotAccepted(r)
                    THEN /\ presigned_url' = r.body.data.presigned_url
                         /\ file_url' = r.body.data.url
                         /\ pc' = "upload_put"
                    ELSE /\ presigned_url' = None
                         /\ file_url' = None
                         /\ pc' = "upload_done"
            /\ nreq' = Issue("slot")
  /\ UNCHANGED <<singleton, replay, config, args, locals, task_id, task_data, raised, now, polling,
                 download, ntemp, archive, result>>

\* the presigned URL answers with a status and no body that is read
PutResponses == {NetErr, Http(TRUE, ""), Http(FALSE, "")}

\* open(pdf_path, 'rb'), then requests.put(presigned_url, data=f) and
\* upload_response.raise_for_status()
UploadPut ==
  /\ pc = "upload_put"
  /\ \E opened \in Offered("open", BOOLEAN) :
       IF ~opened
       THEN /\ resp' = NoResp
            /\ file_url' = None
            /\ UNCHANGED nreq
       ELSE /\ \E r \in Offered("put", PutResponses) :
                 /\ resp' = r
                 /\ file_url' = IF HttpFailure(r) = None THEN file_url ELSE None
            /\ nreq' = Issue("put")
  /\ pc' = "upload_done"
  /\ UNCHANGED <<singleton, replay, config, args, locals, presigned_url, task_id, task_data,
                 raised, now, polling, download, ntemp, archive, result>>

\* lines 321-331: if not file_url: return None, {'error': ...}
AfterUpload ==
  /\ pc = "upload_done"
  /\ IF Falsy(file_url)
     THEN Return(None, ErrorStatus("Failed to upload file to MinerU",
                                   total_pages, is_oversized))
     ELSE pc' = "create" /\ UNCHANGED result
  /\ resp' = NoResp
  /\ UNCHANGED <<singleton, replay, config, args, locals, upload, task_id, task_data, raised, now,
                 polling, nreq, download, ntemp, archive>>

----------------------------------------------------------------------------
(* _create_task, lines 110-148 *)

\* except requests.RequestException as e:  (_create_task, _poll_task)
CatchesRequestException(e) == e.cls = "RequestException"

\* lines 135-144: the exception raised by handling the response, or None
CreateFailure(r) ==
  IF HttpFailure(r) # None THEN HttpFailure(r)
  ELSE IF r.body.shape = "bad"
       THEN Some(Exc("AttributeError", "object has no attribute 'get'"))
       ELSE None

\* lines 138-144: the value returned when nothing was raised
CreateValue(r) == IF r.body.code # 0 THEN None ELSE r.body.data.task_id

\* requests.post(TASK_ENDPOINT): a RequestException is caught and gives None,
\* any other exception propagates to process_pdf
CreateTask ==
  /\ pc = "create"
  /\ \E r \in Offered("task", Responses(TaskBodies, TaskGood, TaskRefused)) :
       /\ resp' = r
       /\ LET e == CreateFailure(r) IN
          IF e = None THEN task_id' = CreateValue(r) /\ raised' = None
          ELSE IF CatchesRequestException(e.val)
               THEN task_id' = None /\ raised' = None
               ELSE task_id' = None /\ raised' = e
  /\ nreq' = Issue("task")
  /\ pc' = "create_done"
  /\ UNCHANGED <<singleton, replay, config, args, locals, upload, task_data, now, polling, download,
                 ntemp, archive, result>>

\* lines 335-345: if not task_id: return None, {'error': ...}
AfterCreate ==
  /\ pc = "create_done"
  /\ IF raised # None THEN Handle(raised.val)
     ELSE IF Falsy(task_id)
          THEN /\ Return(None, ErrorStatus("Failed to create MinerU task",
                                           total_pages, is_oversized))
               /\ UNCHANGED raised
          ELSE pc' = "poll_start" /\ UNCHANGED <<raised, result>>
  /\ resp' = NoResp
  /\ UNCHANGED <<singleton, replay, config, args, locals, upload, task_id, task_data, now,
                 polling, nreq, download, ntemp, archive>>

----------------------------------------------------------------------------
(* _poll_task, lines 150-196 *)

\* the loop test with <= for <
WithinTimeoutInclusive(t, st, to) == t - st <= to

\* the loop test against the clock instead of the elapsed time
WithinTimeoutFromZero(t, st, to) == t < to

\* a loop test that never fails
WithinTimeoutAlways(t, st, to) == TRUE

\* line 162: while time.time() - start_time < self.timeout
WithinTimeout(t, st, to) == t - st < to

\* a state that is missing from the response taken for a failure
PollOutcomeMissingFails(r) ==
  IF HttpFailure(r) # None THEN "sleep"
  ELSE IF r.body.shape = "bad" THEN "raise"
  ELSE IF r.body.code # 0 THEN "none"
  ELSE IF r.body.data.state = Some("done") THEN "data"
  ELSE IF r.body.data.state \in {Some("failed"), None} THEN "none"
  ELSE "sleep"

\* a network error that ends the loop
PollOutcomeErrorAborts(r) ==
  IF HttpFailure(r) # None THEN "none"
  ELSE IF r.body.shape = "bad" THEN "raise"
  ELSE IF r.body.code # 0 THEN "none"
  ELSE IF r.body.data.state = Some("done") THEN "data"
  ELSE IF r.body.data.state = Some("failed") THEN "none"
  ELSE "sleep"

\* a failed task polled again like a running one
PollOutcomeFailedRetries(r) ==
  IF HttpFailure(r) # None THEN "sleep"
  ELSE IF r.body.shape = "bad" THEN "raise"
  ELSE IF r.body.code # 0 THEN "none"
  ELSE IF r.body.data.state = Some("done") THEN "data"
  ELSE "sleep"

\* the code of the envelope left unread
PollOutcomeIgnoresCode(r) ==
  IF HttpFailure(r) # None THEN "sleep"
  ELSE IF r.body.shape = "bad" THEN "raise"
  ELSE IF r.body.data.state = Some("done") THEN "data"
  ELSE IF r.body.data.state = Some("failed") THEN "none"
  ELSE "sleep"

\* lines 169-193: what one status response leads to
PollOutcome(r) ==
  IF HttpFailure(r) # None THEN "sleep"
  ELSE IF r.body.shape = "bad" THEN "raise"
  ELSE IF r.body.code # 0 THEN "none"
  ELSE IF r.body.data.state = Some("done") THEN "data"
  ELSE IF r.body.data.state = Some("failed") THEN "none"
  ELSE "sleep"

\* what a status request met: no usable HTTP response, a body that is not the
\* envelope, an envelope with a non-zero code, or the state it reports
Met(r) ==
  IF r.kind = "neterr" \/ ~r.ok THEN "error"
  ELSE IF r.body.shape = "bad" THEN "malformed"
  ELSE IF r.body.code # 0 THEN "refused"
  ELSE IF r.body.data.state = Some("done") THEN "done"
  ELSE IF r.body.data.state = Some("failed") THEN "failed"
  ELSE "in progress"

\* line 160: start_time = time.time()
PollStart ==
  /\ pc = "poll_start"
  /\ start_time' = now
  /\ pc' = "poll_loop"
  /\ UNCHANGED <<singleton, replay, config, args, locals, upload, task_id, task_data, raised, now,
                 sleeps, observed, resp, nreq, download, ntemp, archive, result>>

\* lines 162-168 and 195-196: the loop test, then the status request or the
\* timeout return
PollRequest ==
  /\ pc = "poll_loop"
  /\ IF WithinTimeout(now, start_time, timeout)
     THEN /\ nreq["poll"] < MaxPolls
          /\ nreq' = Issue("poll")
          /\ pc' = "poll_wait"
          /\ UNCHANGED task_data
     ELSE /\ task_data' = None
          /\ pc' = "poll_done"
          /\ UNCHANGED nreq
  /\ UNCHANGED <<singleton, replay, config, args, locals, upload, task_id, raised, now, polling,
                 resp, download, ntemp, archive, result>>

\* lines 164-193: the response arrives d ticks later and is handled
PollRecv ==
  /\ pc = "poll_wait"
  /\ \E c \in OfferedPoll(Responses(PollBodies, PollGood, PollRefused)
                            \X (0..MaxReqTime)) :
     LET r == c[1]
         d == c[2]
     IN
       /\ resp' = r
       /\ now' = now + d
       /\ observed' = Append(observed, Met(r))
       /\ LET o == PollOutcome(r) IN
          /\ pc' = IF o = "sleep" THEN "poll_sleep" ELSE "poll_done"
          /\ task_data' = IF o = "data" THEN Some(r.body.data) ELSE None
          /\ raised' = IF o = "raise"
                       THEN Some(Exc("AttributeError",
                                     "object has no attribute 'get'"))
                       ELSE None
  /\ UNCHANGED <<singleton, replay, config, args, locals, upload, task_id, start_time, sleeps,
                 nreq, download, ntemp, archive, result>>

\* lines 189 and 193: time.sleep(self.poll_interval)
PollSleep ==
  /\ pc = "poll_sleep"
  /\ now' = now + poll_interval
  /\ sleeps' = sleeps + 1
  /\ resp' = NoResp
  /\ pc' = "poll_loop"
  /\ UNCHANGED <<singleton, replay, config, args, locals, upload, task_id, task_data, raised,
                 start_time, observed, nreq, download, ntemp, archive, result>>

\* lines 349-359: if not task_data: return None, {'error': ...}
AfterPoll ==
  /\ pc = "poll_done"
  /\ IF raised # None THEN Handle(raised.val)
     ELSE IF task_data = None
          THEN /\ Return(None, ErrorStatus("MinerU task failed or timed out",
                                           total_pages, is_oversized))
               /\ UNCHANGED raised
          ELSE pc' = "download" /\ UNCHANGED <<raised, result>>
  /\ resp' = NoResp
  /\ UNCHANGED <<singleton, replay, config, args, locals, upload, task_id, task_data, now,
                 polling, nreq, download, ntemp, archive>>

----------------------------------------------------------------------------
(* Strings: str.lower, str.endswith, Path(name).name *)

UpperCase == "ABCDEFGHIJKLMNOPQRSTUVWXYZ"
LowerCase == "abcdefghijklmnopqrstuvwxyz"

Char(s, i) == SubSeq(s, i, i)

LowerChar(c) ==
  IF \E i \in 1..Len(UpperCase) : Char(UpperCase, i) = c
  THEN Char(LowerCase, CHOOSE i \in 1..Len(UpperCase) : Char(UpperCase, i) = c)
  ELSE c

RECURSIVE Lower(_)
Lower(s) == IF s = "" THEN "" ELSE LowerChar(Char(s, 1)) \o Lower(SubSeq(s, 2, Len(s)))

EndsWith(s, suffix) ==
  /\ Len(s) >= Len(suffix)
  /\ SubSeq(s, Len(s) - Len(suffix) + 1, Len(s)) = suffix

\* Path(name).name of an entry name that does not end in "/"
Basename(name) ==
  LET slashes == {i \in 1..Len(name) : Char(name, i) = "/"}
      last == IF slashes = {} THEN 0
              ELSE CHOOSE i \in slashes : \A j \in slashes : j <= i
  IN SubSeq(name, last + 1, Len(name))

----------------------------------------------------------------------------
(* _download_result, lines 198-265 *)

ImageSuffixes == {".png", ".jpg", ".jpeg", ".gif"}

\* the extension test without lower()
IsImageCaseSensitive(name) == \E suffix \in ImageSuffixes : EndsWith(name, suffix)

\* line 250: name.lower().endswith(('.png', '.jpg', '.jpeg', '.gif'))
IsImage(name) == \E suffix \in ImageSuffixes : EndsWith(Lower(name), suffix)

\* lines 230-231: output_path / f"{base_filename}_mineru.md"
MdPath(dir, id) ==
  dir \o "/" \o (IF id # "unknown" THEN id ELSE "document") \o "_mineru.md"

\* lines 245, 253-254: imgs_dir / Path(name).name
ImgPath(dir, name) == dir \o "/imgs/" \o Basename(name)

\* zf.read(name): the bytes of the entry
Bytes(name) == "bytes of " \o name

\* open(path, 'w').write(data): creates or overwrites
WriteFile(fs, path, data) == (path :> data) @@ fs

\* lines 249-257 run over the first k image entries of the archive
RECURSIVE Extract(_, _, _, _)
Extract(fs, dir, names, k) ==
  IF k = 0 \/ names = <<>> THEN fs
  ELSE IF IsImage(Head(names))
       THEN Extract(WriteFile(fs, ImgPath(dir, Head(names)), Bytes(Head(names))),
                    dir, Tail(names), k - 1)
       ELSE Extract(fs, dir, Tail(names), k)

RECURSIVE Extracted(_, _, _)
Extracted(dir, names, k) ==
  IF k = 0 \/ names = <<>> THEN <<>>
  ELSE IF IsImage(Head(names))
       THEN <<ImgPath(dir, Head(names))>> \o Extracted(dir, Tail(names), k - 1)
       ELSE Extracted(dir, Tail(names), k)

Texts == {"", "# Title\n\nBody"}

\* a download either fails (transport or HTTP status) or delivers a body
Downloads(bodies) == {NetErr} \cup {Http(ok, b) : ok \in BOOLEAN, b \in bodies}

\* the handler of _download_result narrowed to the network errors
DownloadCatchesRequestOnly(e) == e.cls = "RequestException"

\* line 263: except Exception as e
DownloadCatches(e) == TRUE

\* lines 263-265: what leaves _download_result when e is raised inside it
Uncaught(e) == IF DownloadCatches(e) THEN None ELSE Some(e)

\* a list of saved files that is kept from one call to the next
SavedSoFar == saved_files

\* line 215: saved_files = []
InitialSaved == <<>>

\* lines 215-235: the markdown is fetched and written; any exception ends
\* _download_result with what was obtained so far (lines 263-265)
DownloadMarkdown ==
  /\ pc = "download"
  /\ LET md_url == task_data.val.md_url
         path == MdPath(output_dir, args.arxiv_id) IN
     IF Falsy(md_url)
     THEN /\ markdown_text' = ""
          /\ saved_files' = InitialSaved
          /\ dl_failed' = FALSE
          /\ pc' = "dl_zip"
          /\ UNCHANGED <<resp, nreq, files, raised>>
     ELSE /\ \E r \in Offered("md", Downloads(Texts)) :
               /\ resp' = r
               /\ IF HttpFailure(r) # None
                  THEN /\ markdown_text' = ""
                       /\ saved_files' = InitialSaved
                       /\ dl_failed' = TRUE
                       /\ raised' = Uncaught(HttpFailure(r).val)
                       /\ pc' = "dl_done"
                       /\ UNCHANGED files
                  ELSE /\ markdown_text' = r.body
                       /\ \E written \in Offered("mdwrite", BOOLEAN) :
                            IF written
                            THEN /\ files' = WriteFile(files, path, r.body)
                                 /\ saved_files' = Append(InitialSaved, path)
                                 /\ dl_failed' = FALSE
                                 /\ pc' = "dl_zip"
                                 /\ UNCHANGED raised
                            ELSE /\ saved_files' = InitialSaved
                                 /\ dl_failed' = TRUE
                                 /\ raised' =
                                      Uncaught(Exc("OSError", "cannot write"))
                                 /\ pc' = "dl_done"
                                 /\ UNCHANGED files
          /\ nreq' = Issue("md")
  /\ UNCHANGED <<singleton, replay, config, args, locals, upload, task_id, task_data, now,
                 polling, ntemp, archive, result>>

\* lines 238-265: the archive is fetched and its image entries are written;
\* any exception ends _download_result with what was obtained so far
DownloadArchive ==
  /\ pc = "dl_zip"
  /\ LET full_result == task_data.val.full_zip_url IN
     IF Falsy(full_result)
     THEN /\ pc' = "dl_done"
          /\ UNCHANGED <<resp, nreq, saved_files, files, dl_failed, raised>>
     ELSE /\ \E r \in Offered("zip", Downloads({"not a zip", "zip"})) :
               /\ resp' = r
               /\ IF HttpFailure(r) # None
                  THEN /\ dl_failed' = TRUE
                       /\ raised' = Uncaught(HttpFailure(r).val)
                       /\ UNCHANGED <<saved_files, files>>
                  ELSE IF r.body = "not a zip"
                  THEN /\ dl_failed' = TRUE
                       /\ raised' = Uncaught(Exc("BadZipFile",
                                                 "File is not a zip file"))
                       /\ UNCHANGED <<saved_files, files>>
                  ELSE \E k \in OfferedUpTo("written",
                                            Len(SelectSeq(archive, IsImage))) :
                         /\ files' = Extract(files, output_dir, archive, k)
                         /\ saved_files' =
                              saved_files \o Extracted(output_dir, archive, k)
                         /\ dl_failed' = (k < Len(SelectSeq(archive, IsImage)))
                         /\ raised' =
                              IF k < Len(SelectSeq(archive, IsImage))
                              THEN Uncaught(Exc("OSError", "cannot write"))
                              ELSE raised
          /\ nreq' = Issue("zip")
          /\ pc' = "dl_done"
  /\ UNCHANGED <<singleton, replay, config, args, locals, upload, task_id, task_data, now,
                 polling, markdown_text, ntemp, archive, result>>

----------------------------------------------------------------------------
(* process_pdf, lines 363-384: the success return *)

\* line 366
Placeholder(id) ==
  "# OCR Analysis for " \o id \o
  "\n\nMinerU processing completed but no text content was extracted."

\* the placeholder left out
FinalTextAsDownloaded(text, id) == text

\* line 365: if not markdown_text
FinalText(text, id) == IF text = "" THEN Placeholder(id) ELSE text

\* the count printed at line 259, which takes one off for the markdown file
ImagesCountLessOne(saved) == Len(saved) - 1

\* line 369: len([f for f in saved_files if not f.endswith('.md')])
ImagesCount(saved) ==
  Cardinality({i \in DOMAIN saved : ~EndsWith(saved[i], ".md")})

Finish ==
  /\ pc = "dl_done"
  /\ IF raised # None THEN Handle(raised.val)
     ELSE /\ LET text == FinalText(markdown_text, args.arxiv_id) IN
               Return(Some(text),
                      [total_pages |-> total_pages,
                       processed_pages |-> total_pages,
                       is_oversized |-> is_oversized,
                       char_count |-> Len(text), method |-> "mineru",
                       images_count |-> ImagesCount(saved_files),
                       saved_files |-> saved_files, task_id |-> task_id.val])
          /\ UNCHANGED raised
  /\ resp' = NoResp
  /\ UNCHANGED <<singleton, replay, config, args, locals, upload, task_id, task_data, now,
                 polling, nreq, download, ntemp, archive>>

----------------------------------------------------------------------------
(* get_mineru_processor, lines 401-409: threads of one process that call it *)

Callers == 1..MaxCallers

\* everything a process_pdf call reads or writes
flow == <<config, pc, args, locals, upload, task_id, task_data, raised, now,
          polling, resp, nreq, download, ntemp, archive, result, replay>>

\* line 402, and no thread inside the function yet
NoProcessor ==
  /\ mineru_processor = None
  /\ built = 0
  /\ caller = [t \in Callers |-> [pc |-> "start", inst |-> 0, got |-> 0]]

\* a test that every caller passes
IsUnsetAlways(g) == TRUE

\* line 407: _mineru_processor is None
IsUnset(g) == g = None

\* line 407: if _mineru_processor is None
GetTest(t) ==
  /\ caller[t].pc = "start"
  /\ caller' = [caller EXCEPT ![t].pc = IF IsUnset(mineru_processor)
                                        THEN "construct" ELSE "return"]
  /\ UNCHANGED <<mineru_processor, built, flow>>

\* line 408, right-hand side: MinerUProcessor() builds instance number built + 1
GetConstruct(t) ==
  /\ caller[t].pc = "construct"
  /\ built' = built + 1
  /\ caller' = [caller EXCEPT ![t].pc = "assign", ![t].inst = built + 1]
  /\ UNCHANGED <<mineru_processor, flow>>

\* line 408, the assignment to the global
GetAssign(t) ==
  /\ caller[t].pc = "assign"
  /\ mineru_processor' = Some(caller[t].inst)
  /\ caller' = [caller EXCEPT ![t].pc = "return"]
  /\ UNCHANGED <<built, flow>>

\* line 409: return _mineru_processor
GetReturn(t) ==
  /\ caller[t].pc = "return"
  /\ caller' = [caller EXCEPT ![t].pc = "done", ![t].got = mineru_processor.val]
  /\ UNCHANGED <<mineru_processor, built, flow>>

----------------------------------------------------------------------------
(* The provider's archives *)

EntryNames ==
  {"fig1.PNG", "fig2.jpg", "notes.txt", "a/fig.png", "b/fig.png",
   "p/scan.JPeG", "anim.gif", "figpng", "fig.png.bak"}

\* every namelist of at most n entries
RECURSIVE Namelists(_)
Namelists(n) ==
  IF n = 0 THEN {<<>>}
  ELSE Namelists(n - 1) \cup
       {Append(a, e) : a \in {b \in Namelists(n - 1) : Len(b) = n - 1},
                       e \in EntryNames}

Archives == Namelists(MaxEntries)

\* the archives served in the runs of the whole workflow
FlowArchives ==
  {<<"fig1.PNG", "fig2.jpg", "notes.txt">>, <<"a/fig.png", "b/fig.png">>}

----------------------------------------------------------------------------
(* The whole workflow: a processor as MinerUProcessor.__init__ leaves it   *)
(* (lines 33-36), then calls of process_pdf                                *)

\* no test double: the provider and the disk answer as they please
AnyProvider == stub = [any |-> TRUE] /\ first = None

NoCall ==
  /\ args = [max_pages |-> 1, output_path |-> None, arxiv_id |-> "unknown"]
  /\ total_pages = 0
  /\ is_oversized = FALSE
  /\ output_dir = ""
  /\ presigned_url = None
  /\ file_url = None
  /\ task_id = None
  /\ task_data = None
  /\ raised = None
  /\ start_time = 0
  /\ resp = NoResp
  /\ nreq = [k \in RequestKinds |-> 0]
  /\ sleeps = 0
  /\ observed = <<>>
  /\ markdown_text = ""
  /\ saved_files = <<>>
  /\ files = <<>>
  /\ dl_failed = FALSE
  /\ ntemp = 0
  /\ result = None
  /\ NoProcessor

\* the whole workflow is explored for no timeout and for the longest one
Init ==
  /\ api_key \in {"", "sk-key"}
  /\ timeout \in {0, MaxTimeout}
  /\ poll_interval = MaxInterval
  /\ archive \in FlowArchives
  /\ now = 0
  /\ pc = "idle"
  /\ NoCall
  /\ AnyProvider

Next ==
  \/ Call
  \/ CheckKey
  \/ PageCount
  \/ MakeOutputDir
  \/ UploadSlot
  \/ UploadPut
  \/ AfterUpload
  \/ CreateTask
  \/ AfterCreate
  \/ PollStart
  \/ PollRequest
  \/ PollRecv
  \/ PollSleep
  \/ AfterPoll
  \/ DownloadMarkdown
  \/ DownloadArchive
  \/ Finish

Spec == Init /\ [][Next]_vars

----------------------------------------------------------------------------
(* _poll_task on its own: called with a task id at any time, for every     *)
(* timeout and poll interval                                               *)

InitPoll ==
  /\ api_key = "sk-key"
  /\ timeout \in 0..MaxTimeout
  /\ poll_interval \in 0..MaxInterval
  /\ archive = <<>>
  /\ now \in 0..MaxReqTime
  /\ pc = "poll_start"
  /\ AnyProvider
  /\ args = [max_pages |-> 1, output_path |-> None, arxiv_id |-> "unknown"]
  /\ total_pages = 0
  /\ is_oversized = FALSE
  /\ output_dir = ""
  /\ presigned_url = None
  /\ file_url = Some("https://oss/file.pdf")
  /\ task_id = Some("task-1")
  /\ task_data = None
  /\ raised = None
  /\ start_time = 0
  /\ resp = NoResp
  /\ nreq = [k \in RequestKinds |-> 0]
  /\ sleeps = 0
  /\ observed = <<>>
  /\ markdown_text = ""
  /\ saved_files = <<>>
  /\ files = <<>>
  /\ dl_failed = FALSE
  /\ ntemp = 0
  /\ result = None
  /\ NoProcessor

NextPoll ==
  \/ PollStart
  \/ PollRequest
  \/ PollRecv
  \/ PollSleep

SpecPoll == InitPoll /\ [][NextPoll]_vars

\* _poll_task with a clock that advances: a status request that returns in
\* less than a tick is followed by a sleep of at least one tick
PollRecvAdvancing == PollRecv /\ now' + poll_interval > now

NextPollLive ==
  \/ PollStart
  \/ PollRequest
  \/ PollRecvAdvancing
  \/ PollSleep

\* the thread running _poll_task is never suspended for ever: requests.get
\* returns or raises, time.sleep returns
SpecPollLive == InitPoll /\ [][NextPollLive]_vars /\ WF_vars(NextPollLive)

----------------------------------------------------------------------------
(* _download_result on its own: called with a done payload, an output      *)
(* directory and a document id, against every archive                      *)

InitDownload ==
  /\ api_key = "sk-key"
  /\ timeout = MaxTimeout
  /\ poll_interval = MaxInterval
  /\ archive \in Archives \cup FlowArchives
  /\ now = 0
  /\ pc = "download"
  /\ AnyProvider
  /\ \E id \in ArxivIds :
       args = [max_pages |-> 1, output_path |-> Some("/out"), arxiv_id |-> id]
  /\ total_pages = 0
  /\ is_oversized = FALSE
  /\ output_dir = "/out"
  /\ presigned_url = None
  /\ file_url = Some("https://oss/file.pdf")
  /\ task_id = Some("task-1")
  /\ task_data \in {Some(d) : d \in DoneData}
  /\ raised = None
  /\ start_time = 0
  /\ resp = NoResp
  /\ nreq = [k \in RequestKinds |-> 0]
  /\ sleeps = 0
  /\ observed = <<>>
  /\ markdown_text = ""
  /\ saved_files = <<>>
  /\ files = <<>>
  /\ dl_failed = FALSE
  /\ ntemp = 0
  /\ result = None
  /\ NoProcessor

NextDownload ==
  \/ DownloadMarkdown
  \/ DownloadArchive

SpecDownload == InitDownload /\ [][NextDownload]_vars

----------------------------------------------------------------------------
(* Two successive calls of process_pdf with the same arguments, against a  *)
(* test double that answers both calls alike                               *)

\* every request and file operation succeeds; the task is done at once
GoodStub ==
  [any |-> FALSE, pages |-> 1, mkdir |-> TRUE, getsize |-> TRUE,
   slot |-> Http(TRUE, SlotGood), open |-> TRUE, put |-> Http(TRUE, ""),
   task |-> Http(TRUE, TaskGood), poll |-> <<<<Http(TRUE, PollGood), 0>>>>,
   md |-> Http(TRUE, "# Title\n\nBody"), mdwrite |-> TRUE,
   zip |-> Http(TRUE, "zip"), written |-> MaxEntries + 1]

\* the test doubles that differ from GoodStub in the answer k
Vary(k, S) == {[GoodStub EXCEPT ![k] = v] : v \in S}

\* answers to one status request, with the time each takes
PollSteps ==
  {<<NetErr, 1>>, <<Http(TRUE, BadShape), 0>>, <<Http(TRUE, PollRefused), 0>>,
   <<Http(TRUE, PollGood), 0>>,
   <<Http(TRUE, Env(0, PollData(Some("failed"), None, None))), 0>>,
   <<Http(TRUE, Env(0, PollData(Some("running"), None, None))), 0>>,
   <<Http(TRUE, Env(0, PollData(Some("running"), None, None))), MaxReqTime>>}

PollScripts == {<<a>> : a \in PollSteps} \cup (PollSteps \X PollSteps)

\* test doubles for the download phase: each payload, with a markdown step
\* or an archive step that fails or succeeds
DownloadStubs ==
  {[GoodStub EXCEPT !.poll = <<<<Http(TRUE, Env(0, d)), 0>>>>,
                    !.md = m, !.mdwrite = w] :
     d \in DoneData, m \in Downloads(Texts), w \in BOOLEAN}
  \cup
  {[GoodStub EXCEPT !.poll = <<<<Http(TRUE, Env(0, d)), 0>>>>,
                    !.zip = z, !.written = k] :
     d \in DoneData, z \in Downloads({"not a zip", "zip"}),
     k \in 0..MaxEntries}

Stubs ==
  Vary("pages", -1..MaxPages) \cup Vary("mkdir", BOOLEAN)
  \cup Vary("getsize", BOOLEAN) \cup Vary("open", BOOLEAN)
  \cup Vary("slot", Responses(SlotBodies, SlotGood, SlotRefused))
  \cup Vary("put", PutResponses)
  \cup Vary("task", Responses(TaskBodies, TaskGood, TaskRefused))
  \cup Vary("poll", PollScripts)
  \cup DownloadStubs

\* the caller keeps what the first call returned and calls process_pdf again
\* with the same arguments: the locals of the new call are unbound until it
\* assigns them, the disk, the clock and the processor are as the first call
\* left them
CallAgain ==
  /\ pc = "returned"
  /\ first = None
  /\ first' = Some([result |-> result.val, dir |-> output_dir, files |-> files])
  /\ pc' = "entry"
  /\ result' = None
  /\ resp' = NoResp
  /\ nreq' = [k \in RequestKinds |-> 0]
  /\ sleeps' = 0
  /\ observed' = <<>>
  /\ UNCHANGED <<singleton, stub, config, args, locals, upload, task_id,
                 task_data, raised, now, start_time, download, ntemp, archive>>

InitTwice ==
  /\ api_key = "sk-key"
  /\ timeout = MaxTimeout
  /\ poll_interval = MaxInterval
  /\ archive \in FlowArchives
  /\ now = 0
  /\ pc = "idle"
  /\ NoCall
  /\ stub \in Stubs
  /\ first = None

NextTwice == Next \/ CallAgain

SpecTwice == InitTwice /\ [][NextTwice]_vars

----------------------------------------------------------------------------
(* get_mineru_processor called by MaxCallers threads of a fresh process *)

NextSingleton ==
  \E t \in Callers :
    \/ GetTest(t)
    \/ GetConstruct(t)
    \/ GetAssign(t)
    \/ GetReturn(t)

SpecSingleton == Init /\ [][NextSingleton]_vars

----------------------------------------------------------------------------
(* Properties of process_pdf, checked under Spec *)

Returned == pc = "returned" /\ result # None
Text == result.val.text
Status == result.val.status
IsError == "error" \in DOMAIN Status
NoRequest == \A k \in RequestKinds : nreq[k] = 0

\* C1: with an empty api_key, process_pdf returns (None, status) with the
\* error set, total_pages = processed_pages = char_count = 0, is_oversized
\* false and no saved files, and the call issues no request of any kind.
C1_MissingCredential ==
  api_key = "" =>
    /\ NoRequest
    /\ pc \in {"idle", "entry", "returned"}
    /\ pc = "returned" =>
         /\ result # None
         /\ Text = None
         /\ IsError
         /\ Status.error = "MINERU_API_KEY not configured"
         /\ Status.total_pages = 0
         /\ Status.processed_pages = 0
         /\ Status.char_count = 0
         /\ Status.is_oversized = FALSE
         /\ Status.saved_files = <<>>

C1_Witness == api_key = "" /\ Returned /\ Text = None /\ NoRequest

\* C2: no exception crosses the boundary of process_pdf: an exception raised
\* by a step or a helper is pending only until process_pdf handles it, and
\* the call ends by returning a (text, status) pair.
C2_NeverRaises ==
  /\ pc # "escaped"
  /\ raised # None => pc \in {"create_done", "poll_done"}
  /\ pc = "returned" =>
       /\ result # None
       /\ DOMAIN result.val = {"text", "status"}
       /\ raised = None

ErrorOf(msg) == Returned /\ IsError /\ Status.error = msg

\* a malformed task-creation body, which _create_task itself does not catch
C2_Witness ==
  /\ ErrorOf("MinerU processing error: object has no attribute 'get'")
  /\ nreq["task"] = 1
  /\ nreq["poll"] = 0

\* C3 as stated: every error return has text None, the error set and
\* total_pages = processed_pages = char_count = 0 and is_oversized = false.
C3_AsStated ==
  (Returned /\ IsError) =>
    /\ Text = None
    /\ Status.error # ""
    /\ Status.total_pages = 0
    /\ Status.processed_pages = 0
    /\ Status.char_count = 0
    /\ Status.is_oversized = FALSE

PhaseErrors ==
  {"Failed to upload file to MinerU", "Failed to create MinerU task",
   "MinerU task failed or timed out"}

\* C3 amended: every error return has text None, the error set,
\* processed_pages = 0, char_count = 0 and no saved files; total_pages = 0 and
\* is_oversized = false on the missing-credential and the unexpected-exception
\* returns, while the upload, task-creation and poll failure returns carry
\* the page count read from the PDF and its oversize flag.
C3_ErrorStatus ==
  (Returned /\ IsError) =>
    /\ Text = None
    /\ Status.error # ""
    /\ Status.processed_pages = 0
    /\ Status.char_count = 0
    /\ Status.saved_files = <<>>
    /\ IF Status.error \in PhaseErrors
       THEN /\ Status.total_pages = total_pages
            /\ Status.is_oversized = (total_pages > args.max_pages)
       ELSE /\ Status.total_pages = 0
            /\ Status.is_oversized = FALSE

C3_Witness ==
  /\ ErrorOf("Failed to upload file to MinerU")
  /\ Status.total_pages = MaxPages
  /\ Status.is_oversized = TRUE

\* C4: in the returned pair exactly one holds: the text is a non-empty string
\* and the status has no error, or the status has an error and the text is
\* None.
C4_TextXorError ==
  pc = "returned" =>
    /\ result # None
    /\ LET populated == Text # None /\ Text.val # ""
           failed == IsError /\ Status.error # ""
       IN /\ populated # failed
          /\ failed => Text = None
          /\ populated => ~IsError

\* the download phase failed completely and the call still returned text
C4_Witness ==
  /\ Returned
  /\ dl_failed
  /\ markdown_text = ""
  /\ saved_files = <<>>
  /\ Text # None
  /\ ~IsError

Present(x) == x # None /\ x # Some("")

UploadFailed == pc = "upload_done" /\ ~Present(file_url)
CreateFailed == pc = "create_done" /\ (raised # None \/ ~Present(task_id))
PollFailed == pc = "poll_done" /\ (raised # None \/ task_data = None)

C5_Step ==
  /\ nreq'["put"] > nreq["put"] => nreq["slot"] = 1 /\ Present(presigned_url)
  /\ nreq'["task"] > nreq["task"] => nreq["put"] = 1 /\ Present(file_url)
  /\ nreq'["poll"] > nreq["poll"] => nreq["task"] = 1 /\ Present(task_id)
  /\ (nreq'["md"] > nreq["md"] \/ nreq'["zip"] > nreq["zip"]) =>
       /\ nreq["poll"] >= 1
       /\ task_data # None
       /\ task_data.val.state = Some("done")
  /\ (UploadFailed \/ CreateFailed \/ PollFailed) =>
       /\ pc' = "returned"
       /\ nreq' = nreq
       /\ result' # None
       /\ "error" \in DOMAIN result'.val.status
       /\ result'.val.text = None

\* C5: the phases run strictly forward: the PUT follows an accepted upload
\* slot, the task creation an upload that returned a read URL, a status poll
\* a task creation that returned a task id, a download a poll that returned a
\* done payload; a failed phase is followed by the error return and by no
\* further request.
C5_PhasesForward == [][C5_Step]_vars

C5_Witness ==
  /\ Returned
  /\ ~IsError
  /\ nreq["slot"] = 1 /\ nreq["put"] = 1 /\ nreq["task"] = 1
  /\ nreq["poll"] >= 2
  /\ nreq["md"] = 1 /\ nreq["zip"] = 1

----------------------------------------------------------------------------
(* Properties of _poll_task, checked under SpecPoll *)

Elapsed == now - start_time
Polling == pc \in {"poll_loop", "poll_wait", "poll_sleep"}
Reply == resp'.body.data
Last(seq) == seq[Len(seq)]
Meets(what) == pc = "poll_wait" /\ pc' # "poll_wait" /\ Last(observed') = what
ReturnsNone == pc' = "poll_done" /\ task_data' = None /\ raised' = None

\* n in-progress responses followed by done
InProgressThenDone(seq) ==
  /\ seq # <<>>
  /\ Last(seq) = "done"
  /\ \A i \in 1..(Len(seq) - 1) : seq[i] = "in progress"

\* one sleep of poll_interval, then the loop test
OneSleep ==
  pc = "poll_sleep" =>
    /\ sleeps' = sleeps + 1
    /\ now' = now + poll_interval
    /\ nreq' = nreq
    /\ pc' = "poll_loop"

DoneReturnsPayload ==
  Meets("done") => pc' = "poll_done" /\ task_data' = Some(Reply)

\* C6 as stated, read for the responses that carry code 0: every response
\* whose state is neither done nor failed causes one sleep of poll_interval
\* followed by another status request, and done returns its payload.
C6_AsStated ==
  [][/\ Meets("in progress") => pc' = "poll_sleep"
     /\ OneSleep
     /\ (pc = "poll_loop" /\ observed # <<>> /\ Last(observed) = "in progress") =>
          nreq'["poll"] = nreq["poll"] + 1
     /\ DoneReturnsPayload]_vars

C6_Count ==
  (pc = "poll_done" /\ InProgressThenDone(observed)) =>
    /\ nreq["poll"] = Len(observed)
    /\ sleeps = Len(observed) - 1
    /\ task_data = Some(resp.body.data)

\* C6 amended: a response with code 0 whose state is neither done nor failed
\* causes one sleep of poll_interval, followed by another status request if
\* the time elapsed since the loop's start is still below the timeout and by
\* the return of None otherwise; the first done response returns its payload;
\* when n such responses followed by done were received, n+1 status requests
\* and n sleeps were made and the result is the done payload.
C6_SleepAndRetry ==
  [][/\ Meets("in progress") => pc' = "poll_sleep" /\ task_data' = None
     /\ OneSleep
     /\ (pc = "poll_loop" /\ Elapsed < timeout) =>
          nreq'["poll"] = nreq["poll"] + 1 /\ pc' = "poll_wait"
     /\ (pc = "poll_loop" /\ Elapsed >= timeout) => ReturnsNone /\ nreq' = nreq
     /\ DoneReturnsPayload
     /\ C6_Count']_vars

\* running, running, done: three requests, two sleeps
C6_Witness ==
  /\ pc = "poll_done"
  /\ observed = <<"in progress", "in progress", "done">>
  /\ nreq["poll"] = 3
  /\ sleeps = 2
  /\ task_data # None

\* C7: a network error on a status request does not end _poll_task: it is
\* followed by one sleep of poll_interval and, while the timeout has not
\* elapsed, by another status request; a done response met after an error
\* returns its payload.
C7_ErrorRetried ==
  [][/\ Meets("error") =>
          pc' = "poll_sleep" /\ task_data' = None /\ raised' = None
     /\ (pc = "poll_sleep" /\ Last(observed) = "error") =>
          /\ sleeps' = sleeps + 1
          /\ now' = now + poll_interval
          /\ pc' = "poll_loop"
     /\ (pc = "poll_loop" /\ observed # <<>> /\ Last(observed) = "error"
           /\ Elapsed < timeout) =>
          nreq'["poll"] = nreq["poll"] + 1 /\ pc' = "poll_wait"
     /\ (Meets("done") /\ \E i \in DOMAIN observed : observed[i] = "error") =>
          pc' = "poll_done" /\ task_data' = Some(Reply) /\ raised' = None]_vars

C7_Witness ==
  /\ pc = "poll_done"
  /\ observed = <<"error", "done">>
  /\ sleeps = 1
  /\ task_data = Some(resp.body.data)

\* C8: at the loop test with the elapsed time at or beyond the timeout,
\* _poll_task returns None; no status request starts with the elapsed time
\* at or beyond the timeout, and with timeout 0 none is made at all.
C8_Timeout ==
  [][/\ (pc = "poll_loop" /\ Elapsed >= timeout) => ReturnsNone /\ nreq' = nreq
     /\ nreq'["poll"] > nreq["poll"] => pc = "poll_loop" /\ Elapsed < timeout
     /\ timeout = 0 => nreq'["poll"] = 0]_vars

\* the task stayed in progress until the timeout
C8_Witness ==
  /\ pc = "poll_done"
  /\ task_data = None
  /\ Len(observed) >= 2
  /\ \A i \in DOMAIN observed : observed[i] = "in progress"
  /\ Elapsed >= timeout

\* C9 as stated: a status response observed with the timeout already exceeded
\* makes _poll_task return None, whatever state it reports.
C9_AsStated ==
  [][(pc = "poll_wait" /\ pc' # "poll_wait" /\ now' - start_time > timeout) =>
       task_data' = None]_vars

\* C9 amended: the timeout is measured from the loop's start and tested only
\* before each status request: at that test an elapsed time at or beyond the
\* timeout returns None whatever the last observed status was, and a smaller
\* one issues the next request; a response that arrives after the timeout is
\* handled by its state, so a late done still returns its payload.
C9_TimeoutAtLoopTest ==
  [][/\ pc = "poll_start" => start_time' = now
     /\ Polling => start_time' = start_time
     /\ (pc = "poll_loop" /\ now - start_time >= timeout) => ReturnsNone
     /\ (pc = "poll_loop" /\ now - start_time < timeout) => pc' = "poll_wait"
     /\ (pc = "poll_wait" /\ pc' = "poll_done" /\ task_data' # None) =>
          Last(observed') = "done"
     /\ (Meets("done") /\ now' - start_time > timeout) =>
          task_data' = Some(Reply)]_vars

\* a done response that arrived after the timeout was returned
C9_Witness ==
  /\ pc = "poll_done"
  /\ observed # <<>>
  /\ Last(observed) = "done"
  /\ Elapsed > timeout
  /\ start_time > 0
  /\ task_data # None

----------------------------------------------------------------------------
(* Properties of _download_result, checked under SpecDownload *)

\* the entry names that end, case-insensitively, in .png, .jpg, .jpeg or
\* .gif, each with the file it is saved as
SavedAs ==
  [n \in {"fig1.PNG", "fig2.jpg", "a/fig.png", "b/fig.png", "p/scan.JPeG",
          "anim.gif"} |->
     CASE n = "fig1.PNG" -> "/out/imgs/fig1.PNG"
       [] n = "fig2.jpg" -> "/out/imgs/fig2.jpg"
       [] n = "a/fig.png" -> "/out/imgs/fig.png"
       [] n = "b/fig.png" -> "/out/imgs/fig.png"
       [] n = "p/scan.JPeG" -> "/out/imgs/scan.JPeG"
       [] n = "anim.gif" -> "/out/imgs/anim.gif"]

NotSaved ==
  {"/out/imgs/notes.txt", "/out/imgs/figpng", "/out/imgs/fig.png.bak",
   "/out/notes.txt", "/out/figpng", "/out/fig.png.bak"}

RECURSIVE ImagesOf(_)
ImagesOf(names) ==
  IF names = <<>> THEN <<>>
  ELSE IF Head(names) \in DOMAIN SavedAs
       THEN <<SavedAs[Head(names)]>> \o ImagesOf(Tail(names))
       ELSE ImagesOf(Tail(names))

MdSaved ==
  IF task_data.val.md_url = None THEN <<>>
  ELSE <<IF args.arxiv_id = "unknown" THEN "/out/document_mineru.md"
         ELSE "/out/2401.00001_mineru.md">>

Range(seq) == {seq[i] : i \in DOMAIN seq}

ArchiveExtracted ==
  /\ pc = "dl_done"
  /\ ~dl_failed
  /\ task_data.val.full_zip_url # None
  /\ nreq["zip"] = 1

\* C10: when the payload has an archive URL and the archive was fetched and
\* read through, the files recorded after the markdown file are, in archive
\* order, exactly the entries whose name ends case-insensitively in .png,
\* .jpg, .jpeg or .gif, each written under imgs/ with the entry's bytes last
\* written there; no other entry is ever written or recorded.
C10_ImagesOnly ==
  /\ ArchiveExtracted =>
       /\ saved_files = MdSaved \o ImagesOf(archive)
       /\ DOMAIN files = Range(MdSaved) \cup Range(ImagesOf(archive))
       /\ \A i \in DOMAIN archive :
            archive[i] \in DOMAIN SavedAs =>
              LET same == {j \in DOMAIN archive :
                             /\ archive[j] \in DOMAIN SavedAs
                             /\ SavedAs[archive[j]] = SavedAs[archive[i]]}
                  last == CHOOSE j \in same : \A k \in same : k <= j
              IN files[SavedAs[archive[i]]] = "bytes of " \o archive[last]
  /\ DOMAIN files \cap NotSaved = {}
  /\ Range(saved_files) \cap NotSaved = {}
  /\ Range(saved_files) \subseteq Range(MdSaved) \cup Range(ImagesOf(archive))

\* fig1.PNG, fig2.jpg, notes.txt: two files saved
C10_Witness ==
  /\ ArchiveExtracted
  /\ archive = <<"fig1.PNG", "fig2.jpg", "notes.txt">>
  /\ task_data.val.md_url = None
  /\ saved_files = <<"/out/imgs/fig1.PNG", "/out/imgs/fig2.jpg">>
  /\ DOMAIN files = {"/out/imgs/fig1.PNG", "/out/imgs/fig2.jpg"}

----------------------------------------------------------------------------
(* The download phase seen from process_pdf *)

NoMarkdownUrl ==
  /\ task_data # None
  /\ ~Present(task_data.val.md_url)
  /\ Present(task_data.val.full_zip_url)

PlaceholderText ==
  IF args.arxiv_id = "unknown"
  THEN "# OCR Analysis for unknown\n\nMinerU processing completed but no text content was extracted."
  ELSE "# OCR Analysis for 2401.00001\n\nMinerU processing completed but no text content was extracted."

\* C11: when the done payload has no markdown URL but has an archive URL,
\* process_pdf returns the fixed placeholder as text, no markdown is requested
\* or written, saved_files holds image paths only, char_count is the length
\* of the placeholder and images_count is the number of saved files.
C11_PlaceholderWithImages ==
  (Returned /\ ~IsError /\ NoMarkdownUrl) =>
    /\ Text = Some(PlaceholderText)
    /\ Status.char_count = (IF args.arxiv_id = "unknown" THEN 90 ELSE 93)
    /\ nreq["md"] = 0
    /\ \A p \in DOMAIN files : ~EndsWith(p, ".md")
    /\ Status.saved_files = saved_files
    /\ \A i \in DOMAIN saved_files :
         /\ ~EndsWith(saved_files[i], ".md")
         /\ saved_files[i] \in DOMAIN files
    /\ Status.images_count = Len(Status.saved_files)

\* two images extracted from an archive whose payload names no markdown
C11_Witness ==
  /\ Returned
  /\ ~IsError
  /\ NoMarkdownUrl
  /\ archive = <<"fig1.PNG", "fig2.jpg", "notes.txt">>
  /\ Len(Status.saved_files) = 2
  /\ Status.images_count = 2
  /\ Text = Some(PlaceholderText)

C12_Step ==
  /\ (pc = "download" /\ dl_failed') =>
       /\ pc' = "dl_done"
       /\ raised' = None
       /\ saved_files' = <<>>
       /\ files' = files
       /\ markdown_text' =
            (IF resp'.kind = "http" /\ resp'.ok THEN resp'.body ELSE "")
  /\ (pc = "dl_zip" /\ dl_failed') =>
       /\ pc' = "dl_done"
       /\ raised' = None
       /\ markdown_text' = markdown_text
       /\ Len(saved_files') >= Len(saved_files)
       /\ SubSeq(saved_files', 1, Len(saved_files)) = saved_files
       /\ \A i \in DOMAIN saved_files' : saved_files'[i] \in DOMAIN files'
       /\ DOMAIN files \subseteq DOMAIN files'
  /\ (pc = "dl_done" /\ dl_failed) =>
       /\ pc' = "returned"
       /\ result' # None
       /\ "error" \notin DOMAIN result'.val.status
       /\ result'.val.status.saved_files = saved_files
       /\ result'.val.text =
            Some(IF markdown_text = "" THEN PlaceholderText ELSE markdown_text)

\* C12: a failure of any step of the download phase (markdown fetch or write,
\* archive fetch, unzip, image write) raises nothing out of the phase and
\* leaves the text and the saved files obtained before it as they were;
\* process_pdf then returns success with that text (the placeholder when no
\* text was obtained) and exactly those saved files.
C12_PartialDownload == [][C12_Step]_vars

\* the markdown was fetched and saved, then the archive fetch failed
C12_Witness ==
  /\ Returned
  /\ ~IsError
  /\ dl_failed
  /\ nreq["zip"] = 1
  /\ Text = Some("# Title\n\nBody")
  /\ Len(Status.saved_files) = 1
  /\ EndsWith(Status.saved_files[1], "_mineru.md")
  /\ Status.images_count = 0

----------------------------------------------------------------------------
(* The oversize flag *)

\* the call went past the creation of the output directory
ReachedUpload ==
  Returned /\ (~IsError \/ Status.error \in PhaseErrors \/ nreq["task"] >= 1)

\* C13 as stated: the status of every call that reaches the upload phase
\* has is_oversized true exactly when the page count exceeds max_pages.
C13_AsStated ==
  ReachedUpload => (Status.is_oversized <=> total_pages > args.max_pages)

\* C13 amended: a call that reaches the upload phase and ends in success or
\* in an upload, task-creation or poll failure has, in its status, the page
\* count of the document and is_oversized true exactly when that count
\* exceeds max_pages (equal counts give false); on success processed_pages
\* equals total_pages whether or not the document is oversized. A call that
\* ends in the unexpected-exception return has total_pages 0 and is_oversized
\* false whatever the document.
C13_OversizeFlag ==
  /\ pc \notin {"idle", "entry", "page_count", "returned", "escaped"} =>
       (is_oversized <=> total_pages > args.max_pages)
  /\ ReachedUpload =>
       IF ~IsError \/ Status.error \in PhaseErrors
       THEN /\ Status.total_pages = total_pages
            /\ Status.is_oversized <=> total_pages > args.max_pages
            /\ ~IsError => Status.processed_pages = total_pages
       ELSE /\ Status.total_pages = 0
            /\ Status.is_oversized = FALSE

\* an oversized document went through every phase and was returned
C13_Witness ==
  /\ Returned
  /\ ~IsError
  /\ total_pages = 2
  /\ args.max_pages = 1
  /\ Status.is_oversized = TRUE
  /\ Status.processed_pages = 2
  /\ \A k \in RequestKinds : nreq[k] >= 1

----------------------------------------------------------------------------
(* The code of the JSON envelope *)

\* the response just received carries an envelope with a non-zero code
NonZeroCode == resp'.kind = "http" /\ resp'.body.shape = "env" /\ resp'.body.code # 0

SlotAnswered == pc = "upload" /\ nreq'["slot"] > nreq["slot"]
TaskAnswered == pc = "create" /\ nreq'["task"] > nreq["task"]
PollAnswered == pc = "poll_wait" /\ pc' # "poll_wait"

SlotRefusal ==
  (SlotAnswered /\ NonZeroCode) =>
    pc' = "upload_done" /\ file_url' = None /\ nreq'["put"] = 0

TaskRefusal ==
  (TaskAnswered /\ NonZeroCode) =>
    pc' = "create_done" /\ task_id' = None /\ raised' = None

C15_StatedStep ==
  /\ SlotRefusal
  /\ TaskRefusal
  /\ (PollAnswered /\ NonZeroCode) =>
       pc' = "poll_done" /\ task_data' = None /\ raised' = None

\* C15 as stated: whatever the HTTP status, a response whose envelope has a
\* non-zero code makes its phase return failure, and in polling ends the loop
\* at once instead of sleeping and retrying.
C15_AsStated == [][C15_StatedStep]_vars

C15_Step ==
  /\ SlotRefusal
  /\ TaskRefusal
  /\ (PollAnswered /\ NonZeroCode) =>
       IF resp'.ok
       THEN pc' = "poll_done" /\ task_data' = None /\ raised' = None
       ELSE pc' = "poll_sleep" /\ raised' = None
  /\ (pc = "upload_done" /\ file_url = None) =>
       result'.val.status.error = "Failed to upload file to MinerU"
  /\ (pc = "create_done" /\ task_id = None /\ raised = None) =>
       result'.val.status.error = "Failed to create MinerU task"
  /\ (pc = "poll_done" /\ task_data = None /\ raised = None) =>
       result'.val.status.error = "MinerU task failed or timed out"

\* C15 amended: a non-zero code in the envelope of an upload-slot or a
\* task-creation response makes the phase return failure whatever the HTTP
\* status; in polling, a non-zero code in a response with a success HTTP
\* status ends the loop at once with failure, while a response with an error
\* HTTP status is handled as a network error whatever its envelope says: the
\* loop sleeps and retries.
C15_EnvelopeCode == [][C15_Step]_vars

\* a status response with HTTP 200 and code 1 ended the loop without a sleep
C15_Witness ==
  /\ pc = "poll_done"
  /\ resp = Http(TRUE, PollRefused)
  /\ task_data = None
  /\ raised = None
  /\ sleeps = 0
  /\ nreq["poll"] = 1

----------------------------------------------------------------------------
(* The failed state *)

\* the last status response reported the state failed
TaskFailed == observed # <<>> /\ Last(observed) = "failed"

\* C16 as stated: after a status response with state failed the call reports
\* the provider's err_msg as its error.
C16_AsStated ==
  (Returned /\ TaskFailed) => (IsError /\ Status.error = "provider error")

C16_Abort ==
  TaskFailed =>
    /\ pc \in {"poll_done", "returned"}
    /\ nreq["poll"] = Len(observed)
    /\ sleeps = Len(observed) - 1
    /\ nreq["md"] = 0
    /\ nreq["zip"] = 0
    /\ files = <<>>
    /\ pc = "poll_done" => (task_data = None /\ raised = None)
    /\ pc = "returned" =>
         /\ result # None
         /\ Text = None
         /\ IsError
         /\ Status.error = "MinerU task failed or timed out"

C16_Step ==
  (pc = "poll_wait" /\ resp'.kind = "http" /\ resp'.ok
     /\ resp'.body.shape = "env" /\ resp'.body.code = 0
     /\ resp'.body.data.state = Some("failed")) =>
    /\ pc' = "poll_done"
    /\ sleeps' = sleeps
    /\ nreq' = nreq
    /\ task_data' = None

\* C16 amended: a status response with state failed stops the polling at
\* once, with no sleep and no further request, no download takes place, and
\* the call returns the fixed error "MinerU task failed or timed out"; the
\* provider's err_msg is not part of what is returned.
C16_FailedAborts == [](C16_Abort) /\ [][C16_Step]_vars

\* in progress, one sleep, then failed
C16_Witness ==
  /\ Returned
  /\ observed = <<"in progress", "failed">>
  /\ sleeps = 1
  /\ nreq["poll"] = 2
  /\ Status.error = "MinerU task failed or timed out"

----------------------------------------------------------------------------
(* _upload_file: the order of its two requests *)

\* the slot response in hand names both URLs under code 0 and HTTP success
SlotComplete ==
  /\ resp.kind = "http"
  /\ resp.ok
  /\ resp.body.shape = "env"
  /\ resp.body.code = 0
  /\ Present(resp.body.data.presigned_url)
  /\ Present(resp.body.data.url)

C17_Step ==
  /\ nreq'["put"] > nreq["put"] =>
       /\ nreq["slot"] = 1
       /\ nreq["put"] = 0
       /\ SlotComplete
       /\ presigned_url = resp.body.data.presigned_url
  /\ (pc = "upload" /\ nreq'["slot"] > nreq["slot"]) =>
       IF /\ resp'.kind = "http" /\ resp'.ok /\ resp'.body.shape = "env"
          /\ resp'.body.code = 0
          /\ Present(resp'.body.data.presigned_url)
          /\ Present(resp'.body.data.url)
       THEN pc' = "upload_put"
       ELSE pc' = "upload_done" /\ file_url' = None
  /\ pc = "upload_put" =>
       /\ pc' = "upload_done"
       /\ Present(file_url') =>
            /\ nreq'["put"] = 1
            /\ resp' = Http(TRUE, "")
            /\ file_url' = resp.body.data.url

C17_Returned ==
  /\ pc = "upload_put" => SlotComplete
  /\ (pc = "upload_done" /\ Present(file_url)) =>
       (nreq["put"] = 1 /\ resp = Http(TRUE, ""))
  /\ (pc = "upload_done" /\ nreq["put"] = 0) => file_url = None
  /\ pc \in {"create", "create_done", "poll_start"} => nreq["put"] = 1

\* C17: in _upload_file the PUT is issued only after the slot request
\* succeeded with code 0 and returned both a non-empty write URL and a
\* non-empty read URL; when either is missing or empty the phase fails with
\* no PUT; the read URL is returned only after the PUT succeeded.
C17_SlotThenPut == [](C17_Returned) /\ [][C17_Step]_vars

\* the slot named a write URL and no read URL: failure with no PUT
C17_Witness ==
  /\ pc = "upload_done"
  /\ resp.kind = "http"
  /\ resp.ok
  /\ resp.body.shape = "env"
  /\ resp.body.code = 0
  /\ Present(resp.body.data.presigned_url)
  /\ ~Present(resp.body.data.url)
  /\ nreq["put"] = 0
  /\ file_url = None

----------------------------------------------------------------------------
(* The files under imgs/ *)

ImageFiles == {p \in DOMAIN files : ~EndsWith(p, ".md")}

DistinctNames == \A i, j \in DOMAIN archive : i # j => archive[i] # archive[j]

\* C18: after an archive with pairwise distinct entry names was read through,
\* every image entry has a file of its own holding its bytes, the recorded
\* paths are pairwise distinct and the number of images counted is the number
\* of files under imgs/, also when entries of different folders share a base
\* name.
C18_OwnFile ==
  (ArchiveExtracted /\ DistinctNames) =>
    /\ \A i, j \in DOMAIN saved_files :
         i # j => saved_files[i] # saved_files[j]
    /\ \A i \in DOMAIN archive :
         archive[i] \in DOMAIN SavedAs =>
           \E p \in DOMAIN files : files[p] = "bytes of " \o archive[i]
    /\ ImagesCount(saved_files) = Cardinality(ImageFiles)

----------------------------------------------------------------------------
(* Termination of _poll_task *)

\* C19: _poll_task terminates for every behaviour of the provider, every
\* timeout and every poll_interval, 0 included, provided each status request
\* completes or fails and the clock advances: the loop is left by a return or
\* by an exception.
C19_Terminates == <>(pc = "poll_done")

\* poll_interval = 0: the requests alone used up the timeout
C19_Witness ==
  /\ pc = "poll_done"
  /\ poll_interval = 0
  /\ timeout = MaxTimeout
  /\ now - start_time >= timeout
  /\ sleeps >= 2
  /\ task_data = None
  /\ raised = None

----------------------------------------------------------------------------
(* The cached processor *)

Done(t) == caller[t].pc = "done"

C20_State ==
  /\ built = Cardinality({t \in Callers : caller[t].inst # 0})
  /\ \A t \in Callers : Done(t) => caller[t].got \in 1..built
  /\ mineru_processor # None => mineru_processor.val \in 1..built
  /\ \A t \in Callers :
       caller[t].pc = "return" => mineru_processor # None

C20_Step ==
  /\ \A t \in Callers :
       (caller[t].pc = "start" /\ mineru_processor # None) =>
         (caller'[t].pc \in {"start", "return"} /\ caller'[t].inst = 0)
  /\ (mineru_processor # None
        /\ \A t \in Callers : caller[t].pc \notin {"construct", "assign"}) =>
       /\ mineru_processor' = mineru_processor
       /\ built' = built

----------------------------------------------------------------------------
(* Two calls against the same test double *)

\* the path p lies under the directory dir
Under(p, dir) ==
  /\ Len(p) > Len(dir) + 1
  /\ SubSeq(p, 1, Len(dir)) = dir
  /\ SubSeq(p, Len(dir) + 1, Len(dir) + 1) = "/"

\* p relative to dir
Relative(p, dir) == SubSeq(p, Len(dir) + 1, Len(p))

RelativeTo(dir, st) ==
  [st EXCEPT !.saved_files =
     [i \in DOMAIN st.saved_files |-> Relative(st.saved_files[i], dir)]]

\* the files under dir on the disk fs, by relative name
Tree(fs, dir) ==
  {<<Relative(p, dir), fs[p]>> : p \in {q \in DOMAIN fs : Under(q, dir)}}

\* C14: the second of two successive calls with the same arguments, answered
\* as the first was, returns the same text and a status equal to that of the
\* first call with the same saved file names relative to the output
\* directory, none twice; the files under its output directory are those the
\* first call wrote, with the same content, and a call into the same
\* directory adds no file.
C14_Idempotent ==
  (Returned /\ first # None) =>
    LET a == first.val.result IN
    /\ Text = a.text
    /\ IsError <=> "error" \in DOMAIN a.status
    /\ IsError => Status = a.status
    /\ ~IsError =>
         /\ RelativeTo(output_dir, Status) = RelativeTo(first.val.dir, a.status)
         /\ Len(Status.saved_files) = Len(a.status.saved_files)
         /\ Tree(files, output_dir) = Tree(first.val.files, first.val.dir)
         /\ output_dir = first.val.dir => files = first.val.files
         /\ \A p \in DOMAIN first.val.files : p \in DOMAIN files

\* both calls wrote the markdown and two images into /out
C14_Witness ==
  /\ Returned
  /\ first # None
  /\ ~IsError
  /\ output_dir = "/out"
  /\ first.val.dir = "/out"
  /\ Len(Status.saved_files) = 3
  /\ Cardinality(DOMAIN files) = 3
  /\ Text = Some("# Title\n\nBody")

====
